---- MODULE Spec2Model ----
(***************************************************************************)
(* Model of kubecon-2022/workflows/example_00_intro.py: the four tasks     *)
(* get_data, split_data, train_model and evaluate, and the static          *)
(* execution graph training_workflow wires them into.                      *)
(*                                                                         *)
(* A DataFrame is a sequence of rows; a row carries its pandas index label *)
(* and a record of cells, one per column.  Cells are strings, the missing  *)
(* value is "NaN".  A float parameter is a pair <<num, den>>.              *)
(***************************************************************************)
EXTENDS Integers, Sequences, FiniteSets, TLC

\* ------------------------------------------------------------------ bounds

\* Longest table load_penguins hands back in the model.
MaxRows == 6

\* Number of repeated split_data calls in the split harness.
MaxCalls == 2

\* ------------------------------------------------------------ module data

TARGET == "species"

FEATURES == <<"bill_length_mm", "bill_depth_mm", "flipper_length_mm", "body_mass_g">>

NaN == "NaN"

Range(s) == {s[i] : i \in 1..Len(s)}

\* The column selection [TARGET] + FEATURES of get_data.
SelectedColumns == {TARGET} \cup Range(FEATURES)

\* Rows of the penguins table as load_penguins returns them (all eight
\* columns).  PenguinB is the table's row with no measurements, PenguinA a
\* row whose only missing cell is in a column get_data does not select,
\* PenguinC carries PenguinA's measurements under another species.
PenguinA == [species |-> "Adelie", island |-> "Torgersen", bill_length_mm |-> "39.1",
             bill_depth_mm |-> "18.7", flipper_length_mm |-> "181",
             body_mass_g |-> "3750", sex |-> "NaN", year |-> "2007"]

PenguinB == [species |-> "Adelie", island |-> "Torgersen", bill_length_mm |-> "NaN",
             bill_depth_mm |-> "NaN", flipper_length_mm |-> "NaN",
             body_mass_g |-> "NaN", sex |-> "NaN", year |-> "2007"]

PenguinC == [species |-> "Gentoo", island |-> "Biscoe", bill_length_mm |-> "39.1",
             bill_depth_mm |-> "18.7", flipper_length_mm |-> "181",
             body_mass_g |-> "3750", sex |-> "female", year |-> "2008"]

PenguinRows == {PenguinA, PenguinB, PenguinC}

\* load_penguins(): a table with the default RangeIndex 0..n-1.
RawTables ==
    UNION {{[i \in 1..n |-> [index |-> i - 1, cols |-> cells[i]]] :
                cells \in [1..n -> PenguinRows]} : n \in 0..MaxRows}

\* -------------------------------------------------------------- task results

Ok(v) == [ok |-> TRUE, value |-> v, error |-> "none"]

Err(e) == [ok |-> FALSE, value |-> <<>>, error |-> e]

\* ------------------------------------------------------------------ get_data

\* df[[TARGET] + FEATURES]: every row restricted to the selected columns.
SelectColumns(df) ==
    [i \in 1..Len(df) |->
        [index |-> df[i].index, cols |-> [c \in SelectedColumns |-> df[i].cols[c]]]]

HasNaN(row) == \E c \in DOMAIN row.cols : row.cols[c] = NaN

\* Variant: dropna(how="all") on a table with no all-missing row keeps every row.
dropna_keep_all(df) == df

\* DataFrame.dropna(): the rows without a missing cell, in order, each
\* keeping its index label.
dropna(df) == SelectSeq(df, LAMBDA row : ~HasNaN(row))

\* The body of get_data applied to what load_penguins returned.
get_data(raw) == Ok(dropna(SelectColumns(raw)))

\* --------------------------------------------------------------------- state

VARIABLES
    hyperparameters,  \* training_workflow's parameter
    test_size,        \* training_workflow's parameter, <<num, den>>
    random_state,     \* training_workflow's parameter
    raw,              \* what load_penguins returned to get_data
    data,             \* training_workflow's local: output of get_data
    train_data,       \* training_workflow's local: first output of split_data
    test_data,        \* training_workflow's local: second output of split_data
    model,            \* training_workflow's local: output of train_model
    train_acc,        \* training_workflow's local: output of evaluate(train)
    test_acc,         \* training_workflow's local: output of evaluate(test)
    status,           \* per node of the graph: pending, running, succeeded, failed
    args,             \* per node: the inputs it was started with
    attempts,         \* per node: how many times it was started
    order,            \* the nodes in the order they finished
    wf_status,        \* running, returned, failed
    wf_error,         \* the error the workflow call raised
    result,           \* the tuple the workflow call returned
    np_random,        \* state of numpy's global generator
    s_data,           \* split harness: the dataset of the repeated calls
    s_log             \* split harness: the results of the calls so far

vars == <<hyperparameters, test_size, random_state, raw, data, train_data,
          test_data, model, train_acc, test_acc, status, args, attempts, order,
          wf_status, wf_error, result, np_random, s_data, s_log>>

\* ---------------------------------------------------------------- split_data

\* The generator behind numpy's RandomState, reduced to a linear congruential
\* generator of period RkModulus.
RkModulus == 64

RkMultiplier == 13

RkIncrement == 11

rk_seed(seed) == seed % RkModulus

rk_random(s) == (s * RkMultiplier + RkIncrement) % RkModulus

\* A draw from 0..max out of the generator's state.
rk_interval(max, s) == (s \div 4) % (max + 1)

Swap(x, i, j) == [x EXCEPT ![i] = x[j], ![j] = x[i]]

\* RandomState.shuffle: for i = n-1 down to 1, swap x[i] with x[j] for a
\* drawn j in 0..i (positions are 0-based in numpy, 1-based here).
RECURSIVE shuffle(_, _, _)
shuffle(x, i, s) ==
    IF i < 1 THEN [perm |-> x, state |-> s]
    ELSE LET s1 == rk_random(s)
             j == rk_interval(i, s1)
         IN shuffle(Swap(x, i + 1, j + 1), i - 1, s1)

\* RandomState.permutation(n): a shuffled arange(n).
permutation(n, s) == shuffle([k \in 1..n |-> k - 1], n - 1, s)

\* Variant: random_state not passed on, the split draws from the global generator.
check_random_state_global(seed) == [global |-> TRUE, state |-> np_random]

\* sklearn's check_random_state for an int seed: a fresh generator seeded
\* with it; the global generator is left alone.
check_random_state(seed) == [global |-> FALSE, state |-> rk_seed(seed)]

Ceil(num, den) == (num + den - 1) \div den

\* Variant: n_test rounded to nearest instead of up.
n_test_rounded(n_samples, size) == (2 * size[1] * n_samples + size[2]) \div (2 * size[2])

\* _validate_shuffle_split: n_test = ceil(test_size * n_samples).
n_test_of(n_samples, size) == Ceil(size[1] * n_samples, size[2])

\* Variant: the train slice one row short.
n_train_short(n_samples, size) == n_samples - n_test_of(n_samples, size) - 1

\* _validate_shuffle_split with train_size=None: the complement of n_test.
n_train_of(n_samples, size) == n_samples - n_test_of(n_samples, size)

\* DataFrame.iloc[positions] with 0-based positions.
iloc(df, positions) == [k \in 1..Len(positions) |-> df[positions[k] + 1]]

\* train_test_split(df, test_size=size, random_state=seed) with shuffle=True
\* and no stratification: the first n_test positions of the permutation are
\* the test rows, the next n_train the train rows.
train_test_split(df, size, seed) ==
    LET n_samples == Len(df)
        n_test == n_test_of(n_samples, size)
        n_train == n_train_of(n_samples, size)
        perm == permutation(n_samples, check_random_state(seed).state).perm
    IN IF size[1] <= 0 \/ size[1] >= size[2]
       THEN Err("ValueError: test_size out of range")
       ELSE IF n_train <= 0
       THEN Err("ValueError: the resulting train set will be empty")
       ELSE Ok(<<iloc(df, SubSeq(perm, n_test + 1, n_test + n_train)),
                 iloc(df, SubSeq(perm, 1, n_test))>>)

split_data(df, size, seed) == train_test_split(df, size, seed)

\* numpy's global generator after a split_data call: advanced only when the
\* call drew from it.
np_random_after(df, seed) ==
    IF check_random_state(seed).global
    THEN permutation(Len(df), check_random_state(seed).state).state
    ELSE np_random

\* --------------------------------------------------------------- train_model

\* The species in the order numpy sorts them (LogisticRegression.classes_).
Species == <<"Adelie", "Chinstrap", "Gentoo">>

Rank(label) == CHOOSE k \in 1..Len(Species) : Species[k] = label

\* data[FEATURES] of one row.
FeaturesOf(row) == [k \in 1..Len(FEATURES) |-> row.cols[FEATURES[k]]]

\* data[TARGET] of one row.
TargetOf(row) == row.cols[TARGET]

Classes(df) == {TargetOf(df[i]) : i \in 1..Len(df)}

\* The measurement vectors a model can be asked about.
FeatureSpace == {[k \in 1..Len(FEATURES) |-> r[FEATURES[k]]] : r \in PenguinRows}

CountRows(df, x, label) ==
    Cardinality({i \in 1..Len(df) : FeaturesOf(df[i]) = x /\ TargetOf(df[i]) = label})

CountLabel(df, label) == Cardinality({i \in 1..Len(df) : TargetOf(df[i]) = label})

\* The label the fitted classifier gives measurement vector x: the label most
\* frequent among the training rows at x, ties and unseen vectors going to the
\* label most frequent overall, then to the first of classes_.
Fitted(df, x) ==
    LET Better(a, b) ==
            \/ CountRows(df, x, a) > CountRows(df, x, b)
            \/ /\ CountRows(df, x, a) = CountRows(df, x, b)
               /\ \/ CountLabel(df, a) > CountLabel(df, b)
                  \/ /\ CountLabel(df, a) = CountLabel(df, b)
                     /\ Rank(a) < Rank(b)
    IN CHOOSE a \in Classes(df) : \A b \in Classes(df) \ {a} : Better(a, b)

\* The constructor arguments of LogisticRegression the model knows.
ConstructorParams == {"C", "max_iter"}

Positive(q) == q[1] > 0 /\ q[2] > 0

\* LogisticRegression(**hyperparameters).fit(data[FEATURES], data[TARGET]):
\* an unknown keyword is a TypeError of the constructor; a non-positive C or
\* max_iter, a missing cell and a target with fewer than two classes are
\* ValueErrors of fit.
train_model(df, params) ==
    IF ~(DOMAIN params \subseteq ConstructorParams)
    THEN Err("TypeError: unexpected keyword argument")
    ELSE IF \E k \in DOMAIN params : ~Positive(params[k])
    THEN Err("ValueError: invalid parameter")
    ELSE IF \E i \in 1..Len(df) : HasNaN(df[i])
    THEN Err("ValueError: Input contains NaN")
    ELSE IF Cardinality(Classes(df)) < 2
    THEN Err("ValueError: needs samples of at least 2 classes")
    ELSE Ok([params |-> params,
             classes_ |-> Classes(df),
             coef_ |-> [x \in FeatureSpace |-> Fitted(df, x)]])

\* ------------------------------------------------------------------ evaluate

\* model.predict(data[FEATURES]) for one row.
predict(m, row) == m.coef_[FeaturesOf(row)]

RECURSIVE Gcd(_, _)
Gcd(a, b) == IF b = 0 THEN a ELSE Gcd(b, a % b)

\* A float as a fraction in lowest terms.
Float(num, den) == <<num \div Gcd(num, den), den \div Gcd(num, den)>>

Matches(m, df) == {i \in 1..Len(df) : predict(m, df[i]) = TargetOf(df[i])}

\* Variant: accuracy_score(normalize=False), the count of rows predicted right.
accuracy_count(m, df) == Float(Cardinality(Matches(m, df)), 1)

\* accuracy_score(y_true, y_pred): the fraction of rows predicted right.
accuracy_score(m, df) == Float(Cardinality(Matches(m, df)), Len(df))

\* An estimator that fit has not been called on.
NoModel == [params |-> <<>>, classes_ |-> {}, coef_ |-> <<>>]

\* Variant: evaluate answering from the metric another evaluate of the run
\* already produced, whatever the dataset.
evaluate_memo(m, df) ==
    IF status["evaluate_train"] = "succeeded" THEN Ok(train_acc)
    ELSE IF status["evaluate_test"] = "succeeded" THEN Ok(test_acc)
    ELSE Ok(accuracy_score(m, df))

\* The body of evaluate; predict on an unfitted estimator, on an empty frame
\* and on a frame with a missing cell are errors of the library.
evaluate(m, df) ==
    IF m.classes_ = {}
    THEN Err("NotFittedError")
    ELSE IF Len(df) = 0
    THEN Err("ValueError: Found array with 0 sample(s)")
    ELSE IF \E i \in 1..Len(df) : HasNaN(df[i])
    THEN Err("ValueError: Input contains NaN")
    ELSE Ok(accuracy_score(m, df))

\* --------------------------------------------------------- training_workflow

\* The nodes of the execution graph, one per task call of the workflow body.
Nodes == {"get_data", "split_data", "train_model", "evaluate_train", "evaluate_test"}

\* The workflow's default arguments.
DefaultHyperparameters == [C |-> <<1, 10>>, max_iter |-> <<5000, 1>>]

DefaultTestSize == <<1, 5>>

DefaultRandomState == 42

\* Arguments a caller may pass instead.
HyperparameterInputs ==
    {DefaultHyperparameters,
     [C |-> <<0, 1>>, max_iter |-> <<5000, 1>>],
     [C |-> <<1, 10>>, penalty_strength |-> <<1, 1>>]}

TestSizeInputs == {DefaultTestSize, <<1, 2>>, <<1, 1>>}

RandomStateInputs == {DefaultRandomState, 7}

\* States numpy's global generator may have been left in.
NpRandomInit == {11, 23}

\* What the call of load_penguins can come back with.
LoadOutcomes == {Ok(t) : t \in RawTables} \cup {Err("OSError: penguins.csv")}

\* split_data(data=data, test_size=test_size, random_state=random_state)
split_data_args == [data |-> data, test_size |-> test_size, random_state |-> random_state]

\* Variant: train_model bound to the test partition.
train_model_args_test == [data |-> test_data, hyperparameters |-> hyperparameters]

\* train_model(data=train_data, hyperparameters=hyperparameters)
train_model_args == [data |-> train_data, hyperparameters |-> hyperparameters]

\* evaluate(model=model, data=train_data)
evaluate_train_args == [model |-> model, data |-> train_data]

\* evaluate(model=model, data=test_data)
evaluate_test_args == [model |-> model, data |-> test_data]

\* The inputs a node is started with.
Inputs(n) ==
    CASE n = "get_data" -> <<>>
      [] n = "split_data" -> split_data_args
      [] n = "train_model" -> train_model_args
      [] n = "evaluate_train" -> evaluate_train_args
      [] n = "evaluate_test" -> evaluate_test_args

\* Variant: the evaluate nodes bound to split_data only.
Upstream_eager(n) ==
    CASE n = "get_data" -> {}
      [] n = "split_data" -> {"get_data"}
      [] n = "train_model" -> {"split_data"}
      [] n = "evaluate_train" -> {"split_data"}
      [] n = "evaluate_test" -> {"split_data"}

\* The nodes whose outputs a node's inputs are bound to.
Upstream(n) ==
    CASE n = "get_data" -> {}
      [] n = "split_data" -> {"get_data"}
      [] n = "train_model" -> {"split_data"}
      [] n = "evaluate_train" -> {"train_model", "split_data"}
      [] n = "evaluate_test" -> {"train_model", "split_data"}

\* Variant: a node is started once its producers have ended, however they ended.
CanStart_settled(n) ==
    /\ status[n] = "pending"
    /\ \A u \in Upstream(n) : status[u] \in {"succeeded", "failed"}

\* A node is run once, when the workflow call is still in progress and every
\* node it takes an input from has produced its outputs.
CanStart(n) ==
    /\ wf_status = "running"
    /\ status[n] = "pending"
    /\ \A u \in Upstream(n) : status[u] = "succeeded"

NoArgs ==
    [get_data |-> <<>>,
     split_data |-> [data |-> <<>>, test_size |-> <<0, 1>>, random_state |-> 0],
     train_model |-> [data |-> <<>>, hyperparameters |-> <<>>],
     evaluate_train |-> [model |-> NoModel, data |-> <<>>],
     evaluate_test |-> [model |-> NoModel, data |-> <<>>]]

Idle ==
    /\ raw = <<>>
    /\ data = <<>>
    /\ train_data = <<>>
    /\ test_data = <<>>
    /\ model = NoModel
    /\ train_acc = <<0, 1>>
    /\ test_acc = <<0, 1>>
    /\ status = [n \in Nodes |-> "pending"]
    /\ args = NoArgs
    /\ attempts = [n \in Nodes |-> 0]
    /\ order = <<>>
    /\ wf_error = "none"
    /\ result = <<>>

\* The arguments of a call of training_workflow: the defaults, or the defaults
\* with one argument replaced.
WorkflowInputs ==
    {[hyperparameters |-> h, test_size |-> t, random_state |-> r] :
        h \in HyperparameterInputs, t \in TestSizeInputs, r \in RandomStateInputs}

Differences(i) ==
    (IF i.hyperparameters = DefaultHyperparameters THEN 0 ELSE 1)
    + (IF i.test_size = DefaultTestSize THEN 0 ELSE 1)
    + (IF i.random_state = DefaultRandomState THEN 0 ELSE 1)

CallInputs == {i \in WorkflowInputs : Differences(i) <= 1}

\* A call of training_workflow with the caller's arguments.
Init ==
    /\ \E i \in CallInputs :
          /\ hyperparameters = i.hyperparameters
          /\ test_size = i.test_size
          /\ random_state = i.random_state
    /\ np_random \in NpRandomInit
    /\ wf_status = "running"
    /\ Idle
    /\ s_data = <<>>
    /\ s_log = <<>>

Start(n) ==
    /\ CanStart(n)
    /\ status' = [status EXCEPT ![n] = "running"]
    /\ args' = [args EXCEPT ![n] = Inputs(n)]
    /\ attempts' = [attempts EXCEPT ![n] = @ + 1]
    /\ UNCHANGED <<hyperparameters, test_size, random_state, raw, data, train_data,
                   test_data, model, train_acc, test_acc, order, wf_status,
                   wf_error, result, np_random, s_data, s_log>>

\* A task call has come back with res: its outputs, or the error it raised,
\* which nothing in the workflow body catches.
Complete(n, res) ==
    /\ wf_status = "running"
    /\ status[n] = "running"
    /\ status' = [status EXCEPT ![n] = IF res.ok THEN "succeeded" ELSE "failed"]
    /\ wf_status' = IF res.ok THEN wf_status ELSE "failed"
    /\ wf_error' = IF res.ok THEN wf_error ELSE res.error
    /\ order' = Append(order, n)
    /\ UNCHANGED <<hyperparameters, test_size, random_state, args, attempts,
                   result, s_data, s_log>>

\* data = get_data()
Finish_get_data ==
    /\ status["get_data"] = "running"
    /\ \E loaded \in LoadOutcomes :
          LET res == IF loaded.ok THEN get_data(loaded.value) ELSE loaded
          IN /\ Complete("get_data", res)
             /\ raw' = loaded.value
             /\ data' = IF res.ok THEN res.value ELSE data
             /\ UNCHANGED <<train_data, test_data, model, train_acc, test_acc, np_random>>

\* train_data, test_data = split_data(...)
Finish_split_data ==
    LET a == args["split_data"]
        res == split_data(a.data, a.test_size, a.random_state)
    IN /\ Complete("split_data", res)
       /\ train_data' = IF res.ok THEN res.value[1] ELSE train_data
       /\ test_data' = IF res.ok THEN res.value[2] ELSE test_data
       /\ np_random' = np_random_after(a.data, a.random_state)
       /\ UNCHANGED <<raw, data, model, train_acc, test_acc>>

\* model = train_model(...)
Finish_train_model ==
    LET a == args["train_model"]
        res == train_model(a.data, a.hyperparameters)
    IN /\ Complete("train_model", res)
       /\ model' = IF res.ok THEN res.value ELSE model
       /\ UNCHANGED <<raw, data, train_data, test_data, train_acc, test_acc, np_random>>

\* train_acc = evaluate(model=model, data=train_data)
Finish_evaluate_train ==
    LET a == args["evaluate_train"]
        res == evaluate(a.model, a.data)
    IN /\ Complete("evaluate_train", res)
       /\ train_acc' = IF res.ok THEN res.value ELSE train_acc
       /\ UNCHANGED <<raw, data, train_data, test_data, model, test_acc, np_random>>

\* test_acc = evaluate(model=model, data=test_data)
Finish_evaluate_test ==
    LET a == args["evaluate_test"]
        res == evaluate(a.model, a.data)
    IN /\ Complete("evaluate_test", res)
       /\ test_acc' = IF res.ok THEN res.value ELSE test_acc
       /\ UNCHANGED <<raw, data, train_data, test_data, model, train_acc, np_random>>

\* Variant: the name model rebound to the output of the first evaluate.
ReturnValue_reassigned == <<train_acc, train_acc, test_acc>>

\* return model, train_acc, test_acc
ReturnValue == <<model, train_acc, test_acc>>

Return ==
    /\ wf_status = "running"
    /\ \A n \in {"train_model", "evaluate_train", "evaluate_test"} : status[n] = "succeeded"
    /\ result' = ReturnValue
    /\ wf_status' = "returned"
    /\ UNCHANGED <<hyperparameters, test_size, random_state, raw, data, train_data,
                   test_data, model, train_acc, test_acc, status, args, attempts,
                   order, wf_error, np_random, s_data, s_log>>

Next ==
    \/ \E n \in Nodes : Start(n)
    \/ Finish_get_data
    \/ Finish_split_data
    \/ Finish_train_model
    \/ Finish_evaluate_train
    \/ Finish_evaluate_test
    \/ Return

Spec == Init /\ [][Next]_vars

\* ------------------------------------------------------------- split harness

\* Repeated calls of split_data on one dataset with one split size and seed.
SplitInit ==
    /\ hyperparameters = DefaultHyperparameters
    /\ test_size \in TestSizeInputs
    /\ random_state \in RandomStateInputs
    /\ np_random \in NpRandomInit
    /\ wf_status = "idle"
    /\ Idle
    /\ s_data \in {get_data(t).value : t \in RawTables}
    /\ s_log = <<>>

CallSplit ==
    /\ Len(s_log) < MaxCalls
    /\ s_log' = Append(s_log, split_data(s_data, test_size, random_state))
    /\ np_random' = np_random_after(s_data, random_state)
    /\ UNCHANGED <<hyperparameters, test_size, random_state, raw, data, train_data,
                   test_data, model, train_acc, test_acc, status, args, attempts,
                   order, wf_status, wf_error, result, s_data>>

SplitNext == CallSplit

SplitSpec == SplitInit /\ [][SplitNext]_vars

\* ------------------------------------------------------------------- claims

Started(n) == status[n] /= "pending"

Done(n) == status[n] = "succeeded"

Returned == wf_status = "returned"

Rows(df) == {df[i] : i \in 1..Len(df)}

\* C1: a stage starts only after the stages it takes data from have
\* completed: split_data after get_data, train_model after split_data, each
\* evaluate after train_model and after split_data.
DataDependencyOrder ==
    /\ Started("split_data") => Done("get_data")
    /\ Started("train_model") => Done("split_data") /\ Done("get_data")
    /\ Started("evaluate_train") => Done("train_model") /\ Done("split_data")
    /\ Started("evaluate_test") => Done("train_model") /\ Done("split_data")

\* C1 witness: the test evaluation is running while the train evaluation has
\* not started, every stage before them having completed.
EvaluateStartedAfterTrainer ==
    /\ status["evaluate_test"] = "running"
    /\ status["evaluate_train"] = "pending"
    /\ Done("get_data") /\ Done("split_data") /\ Done("train_model")

\* C2: whenever split_data succeeds, the two partitions share no row, every
\* input row is in one of them, and no row is added or repeated.
SplitIsPartition ==
    \A k \in 1..Len(s_log) :
        s_log[k].ok =>
            LET train == s_log[k].value[1]
                test == s_log[k].value[2]
            IN /\ Rows(train) \cap Rows(test) = {}
               /\ Rows(train) \cup Rows(test) = Rows(s_data)
               /\ Len(train) + Len(test) = Len(s_data)
               /\ Cardinality(Rows(train)) = Len(train)
               /\ Cardinality(Rows(test)) = Len(test)

\* C2 witness: a successful split of a dataset of at least four rows whose
\* index labels have a gap left by dropna, two rows in the test partition.
SplitOfGappedDataset ==
    /\ Len(s_log) >= 1
    /\ s_log[1].ok
    /\ Len(s_data) >= 4
    /\ \E i \in 1..Len(s_data) : s_data[i].index /= i - 1
    /\ Len(s_log[1].value[2]) >= 2

CorrectCount(m, df) ==
    Cardinality({i \in 1..Len(df) :
        m.coef_[<<df[i].cols["bill_length_mm"], df[i].cols["bill_depth_mm"],
                  df[i].cols["flipper_length_mm"], df[i].cols["body_mass_g"]>>]
            = df[i].cols["species"]})

\* q is the fraction num/den.
IsFraction(q, num, den) == q[2] > 0 /\ q[1] * den = num * q[2]

InUnitInterval(q) == q[2] > 0 /\ 0 <= q[1] /\ q[1] <= q[2]

\* C3: the returned tuple is the model, the model's accuracy on the train
\* partition and its accuracy on the test partition, in whichever order the
\* two evaluate invocations ran; and neither was started on an input the
\* other writes.
EvaluationsIndependent ==
    /\ \A e \in {"evaluate_train", "evaluate_test"} :
            Started(e) => args[e].model = model /\ args[e].data \in {train_data, test_data}
    /\ Returned =>
            /\ result[1] = model
            /\ IsFraction(result[2], CorrectCount(model, train_data), Len(train_data))
            /\ IsFraction(result[3], CorrectCount(model, test_data), Len(test_data))

\* C3 witness: a run that returned with the test evaluation finished before
\* the train evaluation, the two accuracies being different.
ReturnedAfterReversedEvaluations ==
    /\ Returned
    /\ order = <<"get_data", "split_data", "train_model", "evaluate_test", "evaluate_train">>
    /\ result[2] /= result[3]

\* C4: the model is written once, by train_model, and never changes after:
\* train_model runs at most once, both evaluate invocations are started on
\* that model, a finishing evaluate leaves its inputs, the model and the
\* partitions as they were, and the returned model is that model.
ModelCreatedOnce ==
    [][/\ attempts'["train_model"] <= 1
       /\ status'["train_model"] /= "succeeded" => model' = NoModel
       /\ status["train_model"] = "succeeded" => model' = model
       /\ \A e \in {"evaluate_train", "evaluate_test"} :
            /\ status'[e] /= "pending" => args'[e].model = model'
            /\ status[e] = "running" =>
                    /\ args'[e] = args[e]
                    /\ train_data' = train_data
                    /\ test_data' = test_data
       /\ wf_status' = "returned" =>
            /\ result'[1] = model'
            /\ model' = train_model(train_data', hyperparameters').value]_vars

\* C4 witness: a returned run whose two evaluations were given the model the
\* workflow returned.
ReturnedTrainedModel ==
    /\ Returned
    /\ result[1] = model
    /\ model /= NoModel
    /\ args["evaluate_train"].model = model
    /\ args["evaluate_test"].model = model

\* The nodes that take, directly or through others, an output of node n.
DependentsOf(n) ==
    CASE n = "get_data" -> {"split_data", "train_model", "evaluate_train", "evaluate_test"}
      [] n = "split_data" -> {"train_model", "evaluate_train", "evaluate_test"}
      [] n = "train_model" -> {"evaluate_train", "evaluate_test"}
      [] OTHER -> {}

\* The error a failed node's task raised on the inputs it was started with.
RaisedBy(n) ==
    CASE n = "get_data" -> "OSError: penguins.csv"
      [] n = "split_data" ->
            split_data(args[n].data, args[n].test_size, args[n].random_state).error
      [] n = "train_model" -> train_model(args[n].data, args[n].hyperparameters).error
      [] OTHER -> evaluate(args[n].model, args[n].data).error

\* C6: when a stage fails, the workflow call fails with that stage's error,
\* returns no tuple, runs no stage that depends on the failed one, starts no
\* stage a second time, and takes no further step.
FailurePropagates ==
    /\ \A n \in Nodes : attempts[n] <= 1
    /\ (\E n \in Nodes : status[n] = "failed") => wf_status = "failed"
    /\ wf_status = "failed" =>
        /\ result = <<>>
        /\ Cardinality({n \in Nodes : status[n] = "failed"}) = 1
        /\ \A n \in Nodes :
              status[n] = "failed" =>
                  /\ wf_error = RaisedBy(n)
                  /\ \A d \in DependentsOf(n) : status[d] = "pending"
        /\ ~ENABLED Next

\* C6 witness: the fit failed on invalid hyperparameters after a successful
\* split, and no evaluation was started.
TrainerFailed ==
    /\ wf_status = "failed"
    /\ status["train_model"] = "failed"
    /\ Done("split_data")
    /\ wf_error = "ValueError: invalid parameter"

\* The call was made with the workflow's default split size and seed.
DefaultSplit == test_size = <<1, 5>> /\ random_state = 42

\* C7 as stated: with split size 0.2 and seed 42 a returned run has
\* round(0.8 N) train rows and round(0.2 N) test rows for the N rows of the
\* loaded dataset, the sizes sum to N, and both accuracies are in [0, 1].
SizesAreRounded ==
    (Returned /\ DefaultSplit) =>
        /\ Len(train_data) = (8 * Len(data) + 5) \div 10
        /\ Len(test_data) = (2 * Len(data) + 5) \div 10
        /\ Len(train_data) + Len(test_data) = Len(data)
        /\ InUnitInterval(result[2])
        /\ InUnitInterval(result[3])

\* C7 amended: with split size 0.2 and seed 42 a returned run has
\* ceil(0.2 N) test rows and the remaining N - ceil(0.2 N) train rows, the
\* sizes sum to N, and both accuracies are in [0, 1].
SizesAreCeilAndRest ==
    (Returned /\ DefaultSplit) =>
        /\ Len(test_data) = (Len(data) + 4) \div 5
        /\ Len(train_data) = Len(data) - (Len(data) + 4) \div 5
        /\ Len(train_data) + Len(test_data) = Len(data)
        /\ InUnitInterval(result[2])
        /\ InUnitInterval(result[3])

\* C7 witness: a returned default run on six valid rows, where 0.2 N is not
\* a whole number: two test rows, four train rows.
ReturnedDefaultRunOfSix ==
    /\ Returned
    /\ DefaultSplit
    /\ Len(data) = 6
    /\ Len(test_data) = 2
    /\ Len(train_data) = 4

\* C8: the metric of a successful evaluate is the number of rows of its
\* dataset the model labels right divided by the number of rows, and lies in
\* [0, 1].
AccuracyIsFractionCorrect ==
    /\ Done("evaluate_train") =>
        /\ IsFraction(train_acc, CorrectCount(args["evaluate_train"].model,
                                              args["evaluate_train"].data),
                      Len(args["evaluate_train"].data))
        /\ InUnitInterval(train_acc)
    /\ Done("evaluate_test") =>
        /\ IsFraction(test_acc, CorrectCount(args["evaluate_test"].model,
                                             args["evaluate_test"].data),
                      Len(args["evaluate_test"].data))
        /\ InUnitInterval(test_acc)

\* C8 witness: both evaluations succeeded, the train one on at least three
\* rows with an accuracy strictly between 0 and 1, the test one with 0.
EvaluatedPartlyCorrect ==
    /\ Done("evaluate_train") /\ Done("evaluate_test")
    /\ Len(args["evaluate_train"].data) >= 3
    /\ 0 < train_acc[1] /\ train_acc[1] < train_acc[2]
    /\ test_acc[1] = 0

\* A frame of exactly the five used columns without a missing cell.
FiveColumnsNoMissing(df) ==
    \A i \in 1..Len(df) :
        /\ DOMAIN df[i].cols = {"species", "bill_length_mm", "bill_depth_mm",
                                "flipper_length_mm", "body_mass_g"}
        /\ \A c \in DOMAIN df[i].cols : df[i].cols[c] /= "NaN"

\* C9: the output of get_data has exactly the target and the four feature
\* columns and no missing cell; so have both partitions of split_data and
\* every dataset train_model and evaluate are started on.
NoMissingValues ==
    /\ Done("get_data") => FiveColumnsNoMissing(data)
    /\ Done("split_data") => FiveColumnsNoMissing(train_data) /\ FiveColumnsNoMissing(test_data)
    /\ \A n \in {"split_data", "train_model", "evaluate_train", "evaluate_test"} :
            Started(n) => FiveColumnsNoMissing(args[n].data)

\* C9 witness: a returned run whose loaded table had a row without
\* measurements, which was dropped, and a row missing only its sex, which
\* was kept.
ReturnedFromTableWithMissing ==
    /\ Returned
    /\ \E i \in 1..Len(raw) : raw[i].cols["bill_length_mm"] = "NaN"
    /\ \E i \in 1..Len(raw) :
            /\ raw[i].cols["sex"] = "NaN"
            /\ raw[i].cols["bill_length_mm"] /= "NaN"
            /\ \E j \in 1..Len(data) : data[j].index = raw[i].index
    /\ Len(data) < Len(raw)

\* C10: train_model is started exactly once in a returned run and at most
\* once in any, on exactly the train partition, which shares no row with the
\* test partition; the second returned value is the metric of the evaluate
\* started on the train partition, the third that of the evaluate started on
\* the test partition.
TrainedOnTrainPartitionOnly ==
    /\ attempts["train_model"] <= 1
    /\ Started("train_model") =>
        /\ args["train_model"].data = train_data
        /\ Rows(args["train_model"].data) \cap Rows(test_data) = {}
    /\ Returned =>
        /\ attempts["train_model"] = 1
        /\ args["evaluate_train"].data = train_data
        /\ args["evaluate_test"].data = test_data
        /\ result[2] = train_acc
        /\ result[3] = test_acc
        /\ IsFraction(result[2], CorrectCount(result[1], train_data), Len(train_data))
        /\ IsFraction(result[3], CorrectCount(result[1], test_data), Len(test_data))

\* C10 witness: a returned run that trained on four rows, most of them of one
\* species, and was tested on two rows of the other: the model labels three
\* of the four train rows right and no test row.
ReturnedFitToTrainOnly ==
    /\ Returned
    /\ attempts["train_model"] = 1
    /\ Len(train_data) = 4
    /\ result[2] = <<3, 4>>
    /\ result[3] = <<0, 1>>
    /\ Len(test_data) = 2

====
